---- MODULE Spec2Model ----
(***************************************************************************)
(* Shrdlite planner: the blocks-world state graph (getReachableStates),    *)
(* the goal test (goal / conjunctive), the heuristic (heuristicFunction /  *)
(* estimatedPathLength), the A* search of Graph.ts and the conversion of   *)
(* the found path into arm actions (planInterpretation / pathToPlan).      *)
(***************************************************************************)
EXTENDS Integers, Sequences, FiniteSets, TLC

\* ------------------------------------------------------------------------
\* Bounds of the model
\* ------------------------------------------------------------------------
\* largest number of columns of a world
NumStacks == 2
\* number of objects of the world (a prefix of Catalogue)
NumObjs == 2
\* the search is followed while the popped node's g is below this bound
MaxG == 7
\* reconstructPath is followed while its path is shorter than this bound
MaxPath == 9
\* largest value of the wall clock, in seconds, that the model distinguishes
MaxElapsed == 11
\* largest number of interpretations Planner.plan is called with
MaxInterpretations == 2
\* largest number of states of a list pathToPlan is called with on its own
MaxSequence == 3

\* ------------------------------------------------------------------------
\* JavaScript numbers that are not integers
\* ------------------------------------------------------------------------
Infinity == 1000000
NaN == -1000000
Undefined == -999999

IsNum(x) == x # NaN /\ x # Undefined

\* x + y of JavaScript: NaN and undefined make NaN, Infinity absorbs
JsAdd(x, y) ==
    IF ~IsNum(x) \/ ~IsNum(y) THEN NaN
    ELSE IF x = Infinity \/ y = Infinity THEN Infinity
    ELSE x + y

\* x - y for a finite or undefined y
JsSub(x, y) ==
    IF ~IsNum(x) \/ ~IsNum(y) THEN NaN
    ELSE IF x = Infinity THEN Infinity
    ELSE x - y

\* Math.abs
JsAbs(x) ==
    IF ~IsNum(x) THEN NaN
    ELSE IF x < 0 THEN -x ELSE x

\* a comparison that takes NaN and undefined for 0
JsLtFromZero(x, y) == (IF IsNum(x) THEN x ELSE 0) < (IF IsNum(y) THEN y ELSE 0)

\* x < y of JavaScript: false as soon as one side is NaN or undefined
JsLt(x, y) == IsNum(x) /\ IsNum(y) /\ x < y

\* x == y of JavaScript on numbers: NaN equals nothing, undefined only itself
JsEq(x, y) == x # NaN /\ y # NaN /\ x = y

\* ------------------------------------------------------------------------
\* The world: objects and their static properties (state.objects)
\* ------------------------------------------------------------------------
Catalogue == <<"a", "b", "c", "d">>

Objs == {Catalogue[i] : i \in 1..NumObjs}

objects ==
    [o \in {"a", "b", "c", "d"} |->
        CASE o = "a" -> [form |-> "brick", size |-> "large"]
          [] o = "b" -> [form |-> "brick", size |-> "small"]
          [] o = "c" -> [form |-> "ball",  size |-> "small"]
          [] o = "d" -> [form |-> "box",   size |-> "large"]]

FloorObject == [form |-> "floor", size |-> "null"]

\* the value of state.holding when the arm is empty
Null == "null"

\* ------------------------------------------------------------------------
\* Interpreter helpers on a world state
\*   state = [stacks |-> sequence of columns, arm |-> 0-based column index,
\*            holding |-> object or Null]
\* ------------------------------------------------------------------------
\* Array.indexOf, 0-based, -1 when absent
IndexOf(col, x) ==
    IF \E k \in 1..Len(col) : col[k] = x
    THEN (CHOOSE k \in 1..Len(col) : col[k] = x /\ \A m \in 1..(k-1) : col[m] # x) - 1
    ELSE -1

\* index of the first column that contains x, 0-based, 0 when none
FirstStackWith(x, state) ==
    IF \E i \in 1..Len(state.stacks) : IndexOf(state.stacks[i], x) > -1
    THEN CHOOSE i \in 1..Len(state.stacks) :
            /\ IndexOf(state.stacks[i], x) > -1
            /\ \A m \in 1..(i-1) : IndexOf(state.stacks[m], x) = -1
    ELSE 0

\* a stackIndexOf that takes the floor for the lowest place of a column
stackIndexOfFloorInColumn(tag, state) ==
    IF tag = "floor" THEN 0
    ELSE IF FirstStackWith(tag, state) = 0 THEN Undefined
    ELSE IndexOf(state.stacks[FirstStackWith(tag, state)], tag)

stackIndexOf(tag, state) ==
    IF tag = "floor" THEN -1
    ELSE IF FirstStackWith(tag, state) = 0 THEN Undefined
    ELSE IndexOf(state.stacks[FirstStackWith(tag, state)], tag)

\* a stackIndex that counts the columns from the right
stackIndexFromRight(tag, state) ==
    IF FirstStackWith(tag, state) = 0 THEN Undefined
    ELSE Len(state.stacks) - FirstStackWith(tag, state)

stackIndex(tag, state) ==
    IF FirstStackWith(tag, state) = 0 THEN Undefined
    ELSE FirstStackWith(tag, state) - 1

isInSameStack(target, relative, state) ==
    \/ /\ JsLt(-1, stackIndex(target, state))
       /\ JsEq(stackIndex(target, state), stackIndex(relative, state))
    \/ relative = "floor"

\* the entity a relation argument denotes
Entity(tag) == IF tag = "floor" THEN FloorObject ELSE objects[tag]

checkRelation(rel, args, state) ==
    IF Len(args) = 1 THEN
        IF rel = "holding" THEN Entity(args[1]).form # "floor" ELSE TRUE
    ELSE IF Len(args) = 2 THEN
        LET a == objects[args[1]]
            b == Entity(args[2])
            r == IF b.form = "box" /\ rel = "ontop" THEN "inside" ELSE rel
        IN  IF args[1] = args[2] THEN FALSE
            ELSE IF r = "ontop" THEN
                /\ ~(a.form = "ball" /\ b.form # "floor" /\ b.form # "box")
                /\ b.form # "ball"
                /\ ~(a.size = "large" /\ b.size = "small")
                /\ ~(a.form = "box" /\ a.size = "small" /\ b.size = "small"
                       /\ b.form \in {"pyramid", "brick"})
                /\ ~(a.form = "box" /\ a.size = "large"
                       /\ b.form = "pyramid" /\ b.size = "large")
            ELSE IF r = "inside" THEN
                /\ ~(a.size = "large" /\ b.size = "small")
                /\ ~(b.form = "box" /\ a.size = b.size
                       /\ a.form \in {"pyramid", "plank", "box"})
            ELSE TRUE
    ELSE FALSE

\* ------------------------------------------------------------------------
\* Literals and DNF formulas
\*   literal = [polarity |-> BOOLEAN, relation |-> string, args |-> sequence]
\* ------------------------------------------------------------------------
Lit(rel, as) == [polarity |-> TRUE, relation |-> rel, args |-> as]

\* args[i-1] of JavaScript: undefined past the end
Arg(as, i) == IF i <= Len(as) THEN as[i] ELSE "undefined"

\* x == y of JavaScript on tags: null and undefined equal each other
JsLooseEq(x, y) == x = y \/ {x, y} = {"null", "undefined"}

conjunctive(lit, state) ==
    LET relation == lit.relation
        a0 == Arg(lit.args, 1)
        a1 == Arg(lit.args, 2)
    IN  IF relation = "holding" THEN
            JsLooseEq(state.holding, a0)
        ELSE IF relation \in {"inside", "ontop"} THEN
            /\ isInSameStack(a0, a1, state)
            /\ JsEq(JsSub(stackIndexOf(a0, state), 1), stackIndexOf(a1, state))
        ELSE IF relation = "above" THEN
            /\ isInSameStack(a0, a1, state)
            /\ JsLt(stackIndexOf(a1, state), stackIndexOf(a0, state))
        ELSE IF relation = "under" THEN
            /\ isInSameStack(a0, a1, state)
            /\ JsLt(stackIndexOf(a0, state), stackIndexOf(a1, state))
        ELSE IF relation = "beside" THEN
            \/ JsEq(JsAdd(stackIndex(a0, state), 1), stackIndex(a1, state))
            \/ JsEq(JsSub(stackIndex(a0, state), 1), stackIndex(a1, state))
        ELSE IF relation = "leftof" THEN
            JsEq(JsAdd(stackIndex(a0, state), 1), stackIndex(a1, state))
        ELSE IF relation = "rightof" THEN
            JsEq(JsSub(stackIndex(a0, state), 1), stackIndex(a1, state))
        ELSE FALSE

\* the inner loop of goal with thisDisjRes overwritten by each literal
RECURSIVE thisDisjResLast(_, _, _, _)
thisDisjResLast(conj, state, j, thisDisjRes) ==
    IF j > Len(conj) THEN thisDisjRes
    ELSE thisDisjResLast(conj, state, j + 1, conjunctive(conj[j], state))

\* the inner loop of goal, from the j-th literal of the conjunction on
RECURSIVE thisDisjResFrom(_, _, _, _)
thisDisjResFrom(conj, state, j, thisDisjRes) ==
    IF j > Len(conj) THEN thisDisjRes
    ELSE thisDisjResFrom(conj, state, j + 1,
                         thisDisjRes /\ conjunctive(conj[j], state))

\* the outer loop of goal, from the i-th conjunction on
RECURSIVE goalFrom(_, _, _)
goalFrom(interpretation, state, i) ==
    IF i > Len(interpretation) THEN FALSE
    ELSE IF thisDisjResFrom(interpretation[i], state, 1, TRUE) THEN TRUE
    ELSE goalFrom(interpretation, state, i + 1)

goal(interpretation, state) == goalFrom(interpretation, state, 1)

\* ------------------------------------------------------------------------
\* Heuristic
\* ------------------------------------------------------------------------
\* the order in which argmin's queue visits the indices of a list of n
\* elements: startPos, then alternately one further right and one further
\* left, 0-based
RECURSIVE VisitOrder(_, _, _)
VisitOrder(n, startPos, k) ==
    IF startPos + k >= n /\ startPos - k < 0 THEN <<>>
    ELSE (IF k = 0 THEN <<startPos>>
          ELSE (IF startPos + k < n THEN <<startPos + k>> ELSE <<>>)
               \o (IF startPos - k >= 0 THEN <<startPos - k>> ELSE <<>>))
         \o VisitOrder(n, startPos, k + 1)

\* vs[i] of JavaScript, 0-based: undefined outside the list
ElementAt(vs, i) == IF i >= 0 /\ i < Len(vs) THEN vs[i + 1] ELSE Undefined

\* the while loop of argmin over the indices the queue yields, from the
\* k-th on: argmin and min are the values the loop has so far
RECURSIVE argminLoop(_, _, _, _, _)
argminLoop(vs, order, k, am, min) ==
    IF k > Len(order) THEN am
    ELSE IF JsLt(ElementAt(vs, order[k]), min)
         THEN argminLoop(vs, order, k + 1, order[k], ElementAt(vs, order[k]))
         ELSE argminLoop(vs, order, k + 1, am, min)

\* an argmin that searches from the left end whatever startPos is
argminFromLeft(vs, startPosArg) ==
    argminLoop(vs, [i \in 1..Len(vs) |-> i - 1], 1, Undefined, Infinity)

\* argmin starts undefined and min Infinity; startPos is 0 when undefined,
\* and a startPos that is no number is the only index visited
argmin(vs, startPosArg) ==
    CHOOSE r \in
        {argminLoop(vs, order, 1, Undefined, Infinity) :
            order \in {IF startPosArg = Undefined THEN VisitOrder(Len(vs), 0, 0)
                       ELSE IF IsNum(startPosArg) THEN VisitOrder(Len(vs), startPosArg, 0)
                       ELSE <<startPosArg>>}} : TRUE

\* a "holding" branch that does not count the objects above the target
holdingEstimateNoObstacles(state, args) ==
    IF Len(args) = 1 THEN
        LET targetTag == args[1]
            targetStackIndex == stackIndex(targetTag, state)
            targetStackIndexOf == stackIndexOf(targetTag, state)
        IN  IF JsLooseEq(targetTag, state.holding) THEN 0
            ELSE IF targetStackIndex = Undefined \/ targetStackIndexOf = Undefined
            THEN Infinity
            ELSE JsAbs(state.arm - targetStackIndex) + 1
    ELSE 0

\* the rel == "holding" branch
holdingEstimate(state, args) ==
    IF Len(args) = 1 THEN
        LET targetTag == args[1]
            targetStackIndex == stackIndex(targetTag, state)
            targetStackIndexOf == stackIndexOf(targetTag, state)
        IN  IF JsLooseEq(targetTag, state.holding) THEN 0
            ELSE IF targetStackIndex = Undefined \/ targetStackIndexOf = Undefined
            THEN Infinity
            ELSE JsAbs(state.arm - targetStackIndex)
                 + 4 * (Len(state.stacks[targetStackIndex + 1]) - (targetStackIndexOf + 1))
                 + 1
    ELSE 0

\* the rel == "above" || rel == "under" branch
aboveEstimate(state, rel, args) ==
    IF Len(args) = 2 THEN
        LET targetTag == IF rel = "above" THEN args[1] ELSE args[2]
            relativeTag == IF rel = "above" THEN args[2] ELSE args[1]
            relativeStackIndex == stackIndex(relativeTag, state)
            held == JsLooseEq(state.holding, targetTag)
            targetStackIndex == IF held THEN state.arm ELSE stackIndex(targetTag, state)
            r1 == IF held THEN 0
                  ELSE JsAdd(JsAbs(JsSub(state.arm, targetStackIndex)),
                             holdingEstimate(state, <<targetTag>>))
        IN  JsAdd(JsAdd(r1, JsAbs(JsSub(targetStackIndex, relativeStackIndex))), 1)
    ELSE 0

\* the rel == "ontop" branch (also taken for "inside")
ontopEstimate(state, args) ==
    IF Len(args) = 2 THEN
        LET targetTag == args[1]
            relativeTag == args[2]
            held == JsLooseEq(state.holding, targetTag)
            targetStackIndex == IF held THEN state.arm ELSE stackIndex(targetTag, state)
            stackLengths == [i \in 1..Len(state.stacks) |-> Len(state.stacks[i])]
            relativeStackIndex ==
                IF relativeTag = "floor" THEN argmin(stackLengths, targetStackIndex)
                ELSE stackIndex(relativeTag, state)
            numElsInShortestStack == Len(state.stacks[relativeStackIndex + 1])
            r1 == IF relativeTag = "floor" THEN
                      IF numElsInShortestStack > 0
                      THEN JsAbs(relativeStackIndex - state.arm) + 4 * numElsInShortestStack
                      ELSE 0
                  ELSE JsSub(holdingEstimate(state, <<relativeTag>>), 1)
            r2 == IF held THEN r1
                  ELSE JsAdd(r1, holdingEstimate(state, <<targetTag>>))
        IN  JsAdd(JsAdd(r2, JsAbs(JsSub(relativeStackIndex, targetStackIndex))), 1)
    ELSE 0

\* the rel == "leftof", "rigtof" and "beside" branches
besideEstimate(state, rel, args) ==
    IF Len(args) = 2 THEN
        LET targetTag == args[1]
            relativeTag == args[2]
            targetStackIndex == IF JsLooseEq(state.holding, targetTag) THEN state.arm
                                ELSE stackIndex(targetTag, state)
            relativeStackIndex == IF JsLooseEq(state.holding, relativeTag) THEN state.arm
                                  ELSE stackIndex(relativeTag, state)
            diff == JsSub(relativeStackIndex, targetStackIndex)
            r1 == JsAdd(holdingEstimate(state, <<targetTag>>), JsAbs(diff))
            r2 == IF rel = "beside" /\ JsLt(diff, 0) THEN JsAdd(r1, 1) ELSE r1
        IN  JsAdd(r2, 2)
    ELSE 0

estimatedPathLength(state, condition) ==
    LET rel == IF condition.relation = "inside" THEN "ontop" ELSE condition.relation
        args == condition.args
    IN  IF rel = "holding" THEN holdingEstimate(state, args)
        ELSE IF rel \in {"above", "under"} THEN aboveEstimate(state, rel, args)
        ELSE IF rel = "ontop" THEN ontopEstimate(state, args)
        ELSE IF rel \in {"leftof", "rigtof", "beside"} THEN besideEstimate(state, rel, args)
        ELSE 0

\* thisHeuristic of disjunction i after its first j literals
RECURSIVE SumEstimates(_, _, _)
SumEstimates(state, conj, j) ==
    IF j = 0 THEN 0
    ELSE JsAdd(SumEstimates(state, conj, j - 1), estimatedPathLength(state, conj[j]))

\* a heuristic that adds the sums of the disjunctions up
RECURSIVE SumAcross(_, _, _)
SumAcross(state, interpretation, i) ==
    IF i = 0 THEN 0
    ELSE JsAdd(SumAcross(state, interpretation, i - 1),
               SumEstimates(state, interpretation[i], Len(interpretation[i])))

\* minHeuristic after the first i disjunctions
RECURSIVE MinHeuristic(_, _, _)
MinHeuristic(state, interpretation, i) ==
    IF i = 0 THEN Infinity
    ELSE LET prev == MinHeuristic(state, interpretation, i - 1)
             this == SumEstimates(state, interpretation[i], Len(interpretation[i]))
         IN  IF JsLt(this, prev) THEN this ELSE prev

heuristicFunction(state, interpretation) ==
    IF goal(interpretation, state) THEN 0
    ELSE MinHeuristic(state, interpretation, Len(interpretation))

\* ------------------------------------------------------------------------
\* State model.  A world state object refers to its columns: obj.stacks is
\* a sequence of references into a memory of arrays, mem[r] being the
\* content of the array r.
\* ------------------------------------------------------------------------
\* the world state a state object denotes in a memory
View(obj, mem) ==
    [stacks |-> [i \in 1..Len(obj.stacks) |-> mem[obj.stacks[i]]],
     arm |-> obj.arm, holding |-> obj.holding]

\* a state object for a world state, alone in a memory of its own
Load(state) ==
    [obj |-> [stacks |-> [i \in 1..Len(state.stacks) |-> i],
              arm |-> state.arm, holding |-> state.holding],
     mem |-> state.stacks]

\* a clone that copies the fields but shares the column arrays
cloneObjectShallow(obj, mem) == [obj |-> obj, mem |-> mem]

\* a deep copy: every column is a new array with the same content
cloneObject(obj, mem) ==
    [obj |-> [obj EXCEPT !.stacks = [i \in 1..Len(obj.stacks) |-> Len(mem) + i]],
     mem |-> mem \o [i \in 1..Len(obj.stacks) |-> mem[obj.stacks[i]]]]

\* a pop that reads the last element and leaves it in the array
PopKeepsElement(mem, r) == mem

\* Array.pop / Array.push on the array r
Pop(mem, r) == [mem EXCEPT ![r] = SubSeq(mem[r], 1, Len(mem[r]) - 1)]

\* a push that puts the element at the bottom of the array
PushBelow(mem, r, x) == [mem EXCEPT ![r] = <<x>> \o mem[r]]

Push(mem, r, x) == [mem EXCEPT ![r] = Append(mem[r], x)]

\* The three blocks of getReachableStates.  R = [states, mem] is the result
\* list and the memory as the blocks before have left them.
\* a move to the left that also empties the arm
moveLeftLosesHeld(state, R) ==
    IF state.arm > 0
    THEN LET c == cloneObject(state, R.mem)
         IN  [states |-> Append(R.states, [c.obj EXCEPT !.arm = state.arm - 1,
                                                        !.holding = Null]),
              mem |-> c.mem]
    ELSE R

\* "Arm move left"
moveLeft(state, R) ==
    IF state.arm > 0
    THEN LET c == cloneObject(state, R.mem)
         IN  [states |-> Append(R.states, [c.obj EXCEPT !.arm = state.arm - 1]),
              mem |-> c.mem]
    ELSE R

\* "Arm move right"
moveRight(state, R) ==
    IF state.arm < Len(state.stacks) - 1
    THEN LET c == cloneObject(state, R.mem)
         IN  [states |-> Append(R.states, [c.obj EXCEPT !.arm = state.arm + 1]),
              mem |-> c.mem]
    ELSE R

\* a pick-up or drop that puts the held object down on whatever is below
pickOrDropAnywhere(state, R) ==
    LET heldObjectTag == state.holding
        stateArmPos == state.arm
        stateStackBelowArm == R.mem[state.stacks[stateArmPos + 1]]
        numElsInStack == Len(stateStackBelowArm)
    IN  IF heldObjectTag = Null THEN
            IF numElsInStack > 0 THEN
                LET c == cloneObject(state, R.mem)
                    r == c.obj.stacks[stateArmPos + 1]
                    pickedObject == c.mem[r][Len(c.mem[r])]
                IN  [states |-> Append(R.states, [c.obj EXCEPT !.holding = pickedObject]),
                     mem |-> Pop(c.mem, r)]
            ELSE R
        ELSE
            LET c == cloneObject(state, R.mem)
                r == c.obj.stacks[stateArmPos + 1]
            IN  [states |-> Append(R.states, [c.obj EXCEPT !.holding = Null]),
                 mem |-> Push(c.mem, r, heldObjectTag)]

\* "Arm pick up" when the arm is empty, "Arm drop" when it holds an object
pickOrDrop(state, R) ==
    LET heldObjectTag == state.holding
        stateArmPos == state.arm
        stateStackBelowArm == R.mem[state.stacks[stateArmPos + 1]]
        numElsInStack == Len(stateStackBelowArm)
        stackTopObjectTag == IF numElsInStack = 0 THEN "floor"
                             ELSE stateStackBelowArm[numElsInStack]
    IN  IF heldObjectTag = Null THEN
            IF numElsInStack > 0 THEN
                LET c == cloneObject(state, R.mem)
                    r == c.obj.stacks[stateArmPos + 1]
                    pickedObject == c.mem[r][Len(c.mem[r])]
                IN  [states |-> Append(R.states, [c.obj EXCEPT !.holding = pickedObject]),
                     mem |-> Pop(c.mem, r)]
            ELSE R
        ELSE
            IF checkRelation("ontop", <<heldObjectTag, stackTopObjectTag>>,
                             View(state, R.mem)) THEN
                LET c == cloneObject(state, R.mem)
                    r == c.obj.stacks[stateArmPos + 1]
                IN  [states |-> Append(R.states, [c.obj EXCEPT !.holding = Null]),
                     mem |-> Push(c.mem, r, heldObjectTag)]
            ELSE R

\* the successors of a state object, and the memory after computing them:
\* the three blocks one after the other, each working on the value the
\* block before has left
getReachableStatesIn(state, mem0) ==
    CHOOSE R \in
        {pickOrDrop(state, r) :
            r \in {moveRight(state, l) :
                l \in {moveLeft(state, [states |-> <<>>, mem |-> mem0])}}} : TRUE

\* the world states reachable in one move, in the order of the result list
getReachableStates(state) ==
    CHOOSE out \in
        {[i \in 1..Len(res.states) |-> View(res.states[i], res.mem)] :
            res \in {getReachableStatesIn(l.obj, l.mem) : l \in {Load(state)}}} : TRUE

\* outgoingEdges whose loop stops one state early
outgoingEdgesButLast(state) ==
    LET outgoingNodes == getReachableStates(state)
    IN  [i \in 1..(Len(outgoingNodes) - 1) |->
            [from |-> state, to |-> outgoingNodes[i], cost |-> 1]]

\* StateGraph.outgoingEdges
outgoingEdges(state) ==
    LET outgoingNodes == getReachableStates(state)
    IN  [i \in 1..Len(outgoingNodes) |->
            [from |-> state, to |-> outgoingNodes[i], cost |-> 1]]

\* ------------------------------------------------------------------------
\* Inputs: the worlds and the goal formulas the planner is called with
\* ------------------------------------------------------------------------
\* the columns that hold some of the objects, each at most once
Columns ==
    {c \in UNION {[1..k -> Objs] : k \in 0..NumObjs} :
        \A i, j \in 1..Len(c) : i # j => c[i] # c[j]}

\* every object of a column may rest on what is below it
ColumnIsLegal(c, state) ==
    \A k \in 1..Len(c) :
        checkRelation("ontop", <<c[k], IF k = 1 THEN "floor" ELSE c[k-1]>>, state)

\* the places of an object in a state: its positions in columns and the arm
Places(state, o) ==
    UNION {{<<i, k>> : k \in {m \in 1..Len(state.stacks[i]) : state.stacks[i][m] = o}} :
            i \in 1..Len(state.stacks)}

Occurrences(state, o) ==
    Cardinality(Places(state, o)) + (IF state.holding = o THEN 1 ELSE 0)

WorldStates ==
    {st \in [stacks : UNION {[1..n -> Columns] : n \in 1..NumStacks},
              arm : 0..(NumStacks - 1),
              holding : Objs \cup {Null}] :
        /\ st.arm < Len(st.stacks)
        /\ \A o \in Objs : Occurrences(st, o) = 1
        /\ \A i \in 1..Len(st.stacks) : ColumnIsLegal(st.stacks[i], st)}

\* the tags the goal literals are about
GoalTags == {"a", "b"}

Literals ==
    {Lit("holding", <<x>>) : x \in GoalTags} \cup
    {Lit(rel, <<p[1], p[2]>>) :
        rel \in {"ontop", "inside", "above", "under", "beside", "leftof", "rightof"},
        p \in {q \in GoalTags \X (GoalTags \cup {"floor"}) : q[1] # q[2]}}

\* the formulas the search is run on
SearchFormulas ==
    {<<>>,
     <<<<Lit("holding", <<"a">>)>>>>,
     <<<<Lit("ontop", <<"b", "floor">>)>>>>,
     <<<<Lit("ontop", <<"a", "b">>)>>>>,
     <<<<Lit("above", <<"a", "b">>)>>>>,
     <<<<Lit("under", <<"a", "b">>)>>>>,
     <<<<Lit("beside", <<"a", "b">>)>>>>,
     <<<<Lit("leftof", <<"b", "a">>)>>>>,
     <<<<Lit("rightof", <<"a", "b">>)>>>>,
     <<<<Lit("ontop", <<"b", "floor">>)>>, <<Lit("holding", <<"a">>)>>>>,
     <<<<Lit("beside", <<"a", "b">>)>>, <<Lit("above", <<"b", "a">>)>>>>,
     <<<<Lit("ontop", <<"a", "floor">>), Lit("ontop", <<"b", "floor">>)>>>>}

\* the formulas the goal test and the heuristic are evaluated on
Formulas ==
    SearchFormulas \cup {<<<<l>>>> : l \in Literals} \cup
    {<<>>,
     <<<<Lit("ontop", <<"b", "floor">>)>>, <<Lit("holding", <<"a">>)>>>>,
     <<<<Lit("beside", <<"a", "b">>)>>, <<Lit("above", <<"b", "a">>)>>>>,
     <<<<Lit("ontop", <<"a", "floor">>), Lit("ontop", <<"b", "floor">>)>>>>}

\* ------------------------------------------------------------------------
\* collections.Dictionary and collections.Heap
\* ------------------------------------------------------------------------
\* a dictionary is a function from the keys that were set to their values;
\* the key of a node is its world state
setValue(dict, key, value) ==
    [k \in DOMAIN dict \cup {key} |-> IF k = key THEN value ELSE dict[k]]

getValue(dict, key, undefined) ==
    IF key \in DOMAIN dict THEN dict[key] ELSE undefined

EmptyDict == [k \in {} |-> 0]

\* the entry removeRoot returns: one of the lowest score; among entries of
\* equal score the heap is stable, first in first out or last in first out
\* (identities grow with the time of creation)
removeRoot(h, discipline) ==
    CHOOSE e \in h :
        \A o \in h :
            /\ ~JsLt(o.score, e.score)
            /\ (o.score = e.score /\ o # e) =>
                    IF discipline = "fifo" THEN e.node.id < o.node.id
                    ELSE e.node.id > o.node.id

\* ------------------------------------------------------------------------
\* A* search (Graph.ts).  A node is an object: [id |-> its identity,
\* st |-> the world state it holds]; start has identity 0.
\* ------------------------------------------------------------------------
VARIABLES
    pc,         \* where the planner is: "search", "reconstruct", "returned", "planned"
    start,      \* the start node
    formula,    \* the interpretation planned for
    openSet,    \* list of nodes
    closedSet,  \* list of nodes
    gScore,     \* dictionary node -> number
    fScore,     \* dictionary node -> number
    heap,       \* fScoreOpenHeap: set of [node, score]
    cameFrom,   \* dictionary node -> node
    current,    \* reconstructPath: the node the walk back is at
    total_path, \* reconstructPath: [path, cost]
    result,     \* what aStarSearch returned
    plan,       \* what planInterpretation returned
    error,      \* what planInterpretation threw
    plans,      \* Planner.plan: the plans of the PlannerResults it returned
    thrown,     \* Planner.plan: what it threw
    nextId,     \* identity of the next object created
    tieBreak,   \* the discipline of the heap among equal scores
    elapsed,    \* seconds since the search began
    wpc,        \* state model: "idle", or "called" after getReachableStates
    wIn,        \* state model: the state object given to getReachableStates
    wMem,       \* state model: the memory of column arrays
    wBefore,    \* state model: the world state wIn denoted when it was given
    wOut,       \* state model: the state objects getReachableStates returned
    wH,         \* heuristicFunction of the given state
    wGoal,      \* goal of the given state
    interpretations, \* Planner.plan: the interpretations it is called with
    errors,     \* Planner.plan: the errors caught so far
    outcomes,   \* what each call of planInterpretation so far returned or threw
    stateSequence, \* planInterpretation: the list handed to pathToPlan
    gWhenClosed, \* history: the g of each node of closedSet when it was closed
    heuristicsArg \* aStarSearch: the function passed as heuristics

searchVars == <<pc, start, formula, openSet, closedSet, gScore, fScore, heap,
                cameFrom, current, total_path, result, plan, error, plans,
                thrown, nextId, tieBreak, elapsed>>

walkVars == <<wpc, wIn, wMem, wBefore, wOut, wH, wGoal>>

planVars == <<interpretations, errors, outcomes, stateSequence>>

histVars == <<gWhenClosed>>

argVars == <<heuristicsArg>>

vars == <<searchVars, walkVars, planVars, histVars, argVars>>

NoNode == [id |-> -1, st |-> [stacks |-> <<>>, arm |-> -1, holding |-> "undefined"]]
NoResult == [path |-> <<>>, cost |-> Undefined]
NoError == "none"

\* an equality of nodes by reference
equalByReference(n, m) == n.id = m.id

\* equal([n, m]) : the JSON serialisations agree
equal(n, m) == n.st = m.st

\* contains(n, ns)
contains(n, ns) == \E i \in 1..Len(ns) : equal(n, ns[i])

\* Array.indexOf on a list of nodes: by identity
NodeIndexOf(ns, n) ==
    IF \E i \in 1..Len(ns) : ns[i].id = n.id
    THEN CHOOSE i \in 1..Len(ns) : ns[i].id = n.id /\ \A m \in 1..(i-1) : ns[m].id # n.id
    ELSE 0

\* ns.splice(i - 1, 1) for the 1-based position i, 0 standing for index -1,
\* which removes the last element
Splice(ns, i) ==
    LET at == IF i = 0 THEN Len(ns) ELSE i
    IN  [k \in 1..(Len(ns) - 1) |-> IF k < at THEN ns[k] ELSE ns[k + 1]]

\* the heuristics parameter of aStarSearch: the planner passes its
\* heuristicFunction; other callers may pass any function of a node
heuristics(n) ==
    CASE heuristicsArg = "heuristicFunction" -> heuristicFunction(n.st, formula)
      [] heuristicsArg = "zero" -> 0
      [] heuristicsArg = "one" -> 1

\* the body of the loop over currentNeighbourEdges for one edge, the
\* neighbour being the object of identity id;
\* S = [openSet, gScore, fScore, cameFrom, heap] as the loop has left them
NeighbourStep(thisEdge, id, cur, closed, S) ==
    LET thisNeighbour == [id |-> id, st |-> thisEdge.to]
        tentative_gScore == JsAdd(getValue(S.gScore, cur.st, Undefined), thisEdge.cost)
        pushed == ~contains(thisNeighbour, S.openSet)
        score == JsAdd(tentative_gScore, heuristics(thisNeighbour))
    IN  IF NodeIndexOf(closed, thisNeighbour) > 0 THEN S
        ELSE IF ~pushed /\ ~JsLt(tentative_gScore,
                                 getValue(S.gScore, thisNeighbour.st, Undefined)) THEN S
        ELSE [openSet |-> IF pushed THEN Append(S.openSet, thisNeighbour)
                          ELSE S.openSet,
              cameFrom |-> setValue(S.cameFrom, thisNeighbour.st, cur),
              gScore |-> setValue(S.gScore, thisNeighbour.st, tentative_gScore),
              fScore |-> setValue(S.fScore, thisNeighbour.st, score),
              heap |-> IF pushed
                       THEN S.heap \cup {[node |-> thisNeighbour, score |-> score]}
                       ELSE S.heap]

\* the loop over currentNeighbourEdges, from edge i on: the rest of the loop
\* works on the value the body has left after edge i
RECURSIVE ForEachNeighbour(_, _, _, _, _)
ForEachNeighbour(edges, i, cur, closed, S) ==
    IF i > Len(edges) THEN S
    ELSE CHOOSE after \in
            {ForEachNeighbour(edges, i + 1, cur, closed, x) :
                x \in {NeighbourStep(edges[i], nextId + i - 1, cur, closed, S)}} : TRUE

\* the state-model variables while the planner runs
WalkIdle ==
    /\ wpc = "off"
    /\ wIn = Load(start.st).obj
    /\ wMem = Load(start.st).mem
    /\ wBefore = start.st
    /\ wOut = <<>>
    /\ wH = 0
    /\ wGoal = FALSE

\* aStarSearch is called with one of the functions hs as heuristics and has
\* set up its tables
InitSearch(hs) ==
    /\ pc = "search"
    /\ heuristicsArg \in hs
    /\ \E st \in WorldStates : start = [id |-> 0, st |-> st]
    /\ formula \in SearchFormulas
    /\ openSet = <<start>>
    /\ closedSet = <<>>
    /\ gScore = setValue(EmptyDict, start.st, 0)
    /\ fScore = setValue(EmptyDict, start.st, heuristics(start))
    /\ heap = {[node |-> start, score |-> heuristics(start)]}
    /\ cameFrom = EmptyDict
    /\ current = NoNode
    /\ total_path = NoResult
    /\ result = NoResult
    /\ plan = <<>>
    /\ error = NoError
    /\ plans = <<>>
    /\ thrown = NoError
    /\ nextId = 1
    /\ tieBreak \in {"fifo", "lifo"}
    /\ elapsed = 0
    /\ interpretations = <<formula>>
    /\ errors = <<>>
    /\ outcomes = <<>>
    /\ stateSequence = <<>>
    /\ gWhenClosed = <<>>
    /\ WalkIdle

\* planInterpretation is called: it passes its heuristicFunction
Init == InitSearch({"heuristicFunction"})

\* one iteration of the while loop whose popped node is a goal:
\* reconstructPath is entered
FoundGoal ==
    /\ pc = "search"
    /\ Len(openSet) > 0
    /\ LET root == removeRoot(heap, tieBreak)
       IN  /\ goal(formula, root.node.st)
           /\ heap' = heap \ {root}
           /\ current' = root.node
           /\ total_path' = [path |-> <<root.node>>,
                             cost |-> getValue(fScore, root.node.st, Undefined)]
    /\ pc' = "reconstruct"
    /\ UNCHANGED <<start, formula, openSet, closedSet, gScore, fScore, cameFrom,
                   result, plan, error, plans, thrown, nextId, tieBreak, elapsed>>
    /\ UNCHANGED walkVars
    /\ UNCHANGED planVars
    /\ UNCHANGED argVars
    /\ UNCHANGED histVars

\* one iteration of the while loop whose popped node is not a goal
Expand ==
    /\ pc = "search"
    /\ Len(openSet) > 0
    /\ \E root \in {removeRoot(heap, tieBreak)} :
       \E edges \in {outgoingEdges(root.node.st)} :
       \E S \in {ForEachNeighbour(edges, 1, root.node, Append(closedSet, root.node),
                    [openSet |-> Splice(openSet, NodeIndexOf(openSet, root.node)),
                     gScore |-> gScore, fScore |-> fScore, cameFrom |-> cameFrom,
                     heap |-> heap \ {root}])} :
           /\ ~goal(formula, root.node.st)
           /\ JsLt(getValue(gScore, root.node.st, Undefined), MaxG)
           /\ closedSet' = Append(closedSet, root.node)
           /\ gWhenClosed' = Append(gWhenClosed,
                                    getValue(gScore, root.node.st, Undefined))
           /\ openSet' = S.openSet
           /\ gScore' = S.gScore
           /\ fScore' = S.fScore
           /\ cameFrom' = S.cameFrom
           /\ heap' = S.heap
           /\ nextId' = nextId + Len(edges)
    /\ UNCHANGED <<pc, start, formula, current, total_path, result, plan, error,
                   plans, thrown, tieBreak, elapsed>>
    /\ UNCHANGED walkVars
    /\ UNCHANGED planVars
    /\ UNCHANGED argVars

\* the loop ends with an empty open set: result is still undefined
ReturnUndefined ==
    /\ pc = "search"
    /\ Len(openSet) = 0
    /\ pc' = "returned"
    /\ result' = NoResult
    /\ UNCHANGED <<start, formula, openSet, closedSet, gScore, fScore, heap, cameFrom,
                   current, total_path, plan, error, plans, thrown, nextId, tieBreak,
                   elapsed>>
    /\ UNCHANGED walkVars
    /\ UNCHANGED planVars
    /\ UNCHANGED argVars
    /\ UNCHANGED histVars

\* one iteration of the while loop of reconstructPath
ReconstructStep ==
    /\ pc = "reconstruct"
    /\ current.id # start.id
    /\ Len(total_path.path) < MaxPath
    /\ current' = getValue(cameFrom, current.st, NoNode)
    /\ total_path' = [total_path EXCEPT !.path = Append(@, current')]
    /\ UNCHANGED <<pc, start, formula, openSet, closedSet, gScore, fScore, heap,
                   cameFrom, result, plan, error, plans, thrown, nextId, tieBreak,
                   elapsed>>
    /\ UNCHANGED walkVars
    /\ UNCHANGED planVars
    /\ UNCHANGED argVars
    /\ UNCHANGED histVars

\* a reverse that leaves the list as it is
ReverseKept(ns) == ns

\* Array.reverse
Reverse(ns) == [k \in 1..Len(ns) |-> ns[Len(ns) + 1 - k]]

\* the walk back has reached start: start is removed, the path reversed and
\* returned by reconstructPath and by aStarSearch
ReconstructReturn ==
    /\ pc = "reconstruct"
    /\ current.id = start.id
    /\ result' = [total_path EXCEPT !.path = Reverse(Splice(@, Len(@)))]
    /\ pc' = "returned"
    /\ UNCHANGED <<start, formula, openSet, closedSet, gScore, fScore, heap,
                   cameFrom, current, total_path, plan, error, plans, thrown, nextId,
                   tieBreak, elapsed>>
    /\ UNCHANGED walkVars
    /\ UNCHANGED planVars
    /\ UNCHANGED argVars
    /\ UNCHANGED histVars

\* pathToPlan with the two arm directions exchanged
RECURSIVE pathToPlanFromSwapped(_, _)
pathToPlanFromSwapped(path, i) ==
    IF i > Len(path) THEN <<>>
    ELSE
        LET currentState == path[i - 1]
            nextState == path[i]
            step == IF currentState.arm < nextState.arm THEN <<"l">>
                    ELSE IF currentState.arm > nextState.arm THEN <<"r">>
                    ELSE IF currentState.holding # Null /\ nextState.holding = Null
                    THEN <<"d">>
                    ELSE IF currentState.holding = Null /\ nextState.holding # Null
                    THEN <<"p">>
                    ELSE <<>>
        IN  step \o pathToPlanFromSwapped(path, i + 1)

\* pathToPlan, from the pair (path[i-1], path[i]) on
RECURSIVE pathToPlanFrom(_, _)
pathToPlanFrom(path, i) ==
    IF i > Len(path) THEN <<>>
    ELSE
        LET currentState == path[i - 1]
            nextState == path[i]
            step == IF currentState.arm < nextState.arm THEN <<"r">>
                    ELSE IF currentState.arm > nextState.arm THEN <<"l">>
                    ELSE IF currentState.holding # Null /\ nextState.holding = Null
                    THEN <<"d">>
                    ELSE IF currentState.holding = Null /\ nextState.holding # Null
                    THEN <<"p">>
                    ELSE <<>>
        IN  step \o pathToPlanFrom(path, i + 1)

pathToPlan(path) == pathToPlanFrom(path, 2)

TimeoutError == "Timeout. Maybe no path exists?"
AlreadyTrue == "That is already true!"

\* planInterpretation throwing also when the path found is empty
planOfResultThrowsOnEmpty(path) ==
    IF path = NoResult \/ Len(path.path) = 0
    THEN [plan |-> <<>>, error |-> TimeoutError]
    ELSE [plan |-> pathToPlan(<<start.st>> \o [k \in 1..Len(path.path) |->
                                                  path.path[k].st]),
          error |-> NoError]

\* what planInterpretation does with the value of aStarSearch: the plan it
\* returns, or the error it throws
planOfResult(path) ==
    IF path = NoResult
    THEN [plan |-> <<>>, error |-> TimeoutError]
    ELSE [plan |-> pathToPlan(<<start.st>> \o [k \in 1..Len(path.path) |->
                                                  path.path[k].st]),
          error |-> NoError]

\* Array.unshift
unshift(ns, n) == <<n>> \o ns

\* tables that are set up once and shared by all calls: a call adds start
\* to what the call before has left
NewSearchShared(f) ==
    [openSet |-> Append(openSet, start),
     closedSet |-> closedSet,
     gScore |-> setValue(gScore, start.st, 0),
     fScore |-> setValue(fScore, start.st, heuristicFunction(start.st, f)),
     heap |-> heap \cup {[node |-> start, score |-> heuristicFunction(start.st, f)]},
     cameFrom |-> cameFrom]

\* the tables of aStarSearch as a call with the interpretation f sets them
\* up: every call constructs its own
NewSearch(f) ==
    [openSet |-> <<start>>,
     closedSet |-> <<>>,
     gScore |-> setValue(EmptyDict, start.st, 0),
     fScore |-> setValue(EmptyDict, start.st, heuristicFunction(start.st, f)),
     heap |-> {[node |-> start, score |-> heuristicFunction(start.st, f)]},
     cameFrom |-> EmptyDict]

\* aStarSearch has returned: planInterpretation returns or throws, and the
\* forEach of Planner.plan files the plan or the error; it goes on with the
\* next interpretation, or Planner.plan returns the plans or throws
\* the end of plan with the first error thrown whenever there is one
throwFirstAlways(ps, es) == IF Len(es) > 0 THEN es[1] ELSE NoError

\* the end of plan: the plans are returned when there is one, the first
\* error is thrown otherwise
throwFirst(ps, es) == IF Len(ps) > 0 THEN NoError ELSE es[1]

PlanInterpretation ==
    /\ pc = "returned"
    /\ LET r == planOfResult(result)
           ps == IF r.error # NoError THEN plans
                 ELSE Append(plans, IF Len(r.plan) = 0 THEN <<AlreadyTrue>>
                                    ELSE r.plan)
           es == IF r.error # NoError THEN Append(errors, r.error) ELSE errors
       IN  /\ plan' = r.plan
           /\ error' = r.error
           /\ stateSequence' = IF result = NoResult THEN <<>>
                                ELSE unshift(result.path, start)
           /\ outcomes' = Append(outcomes, r)
           /\ plans' = ps
           /\ errors' = es
           /\ IF Len(outcomes) + 1 < Len(interpretations)
              THEN LET f == interpretations[Len(outcomes) + 2]
                       new == NewSearch(f)
                   IN  /\ pc' = "search"
                       /\ formula' = f
                       /\ openSet' = new.openSet
                       /\ closedSet' = new.closedSet
                       /\ gWhenClosed' = <<>>
                       /\ gScore' = new.gScore
                       /\ fScore' = new.fScore
                       /\ heap' = new.heap
                       /\ cameFrom' = new.cameFrom
                       /\ current' = NoNode
                       /\ total_path' = NoResult
                       /\ result' = NoResult
                       /\ elapsed' = 0
                       /\ thrown' = NoError
              ELSE /\ pc' = "planned"
                   /\ thrown' = throwFirst(ps, es)
                   /\ UNCHANGED <<formula, openSet, closedSet, gScore, fScore, heap,
                                  cameFrom, current, total_path, result, elapsed>>
                   /\ UNCHANGED histVars
    /\ UNCHANGED <<start, nextId, tieBreak, interpretations>>
    /\ UNCHANGED walkVars
    /\ UNCHANGED argVars

Next ==
    \/ FoundGoal
    \/ Expand
    \/ ReturnUndefined
    \/ ReconstructStep
    \/ ReconstructReturn
    \/ PlanInterpretation

Spec == Init /\ [][Next]_vars

\* aStarSearch called by any caller: the heuristics may be any function of a
\* node, such as the constant functions 0 and 1
InitGeneric == InitSearch({"heuristicFunction", "zero", "one"})

GenericSpec == InitGeneric /\ [][Next]_vars

\* the formulas of the interpretations Planner.plan is called with
PlanFormulas ==
    {<<>>,
     <<<<Lit("holding", <<"a">>)>>>>,
     <<<<Lit("ontop", <<"b", "floor">>)>>>>,
     <<<<Lit("above", <<"a", "b">>)>>>>}

\* Planner.plan is called with a list of interpretations; planInterpretation
\* is called with the first and aStarSearch has set up its tables
InitPlan ==
    /\ pc = "search"
    /\ heuristicsArg = "heuristicFunction"
    /\ \E st \in WorldStates : start = [id |-> 0, st |-> st]
    /\ interpretations \in UNION {[1..n -> PlanFormulas] : n \in 1..MaxInterpretations}
    /\ formula = interpretations[1]
    /\ openSet = <<start>>
    /\ closedSet = <<>>
    /\ gScore = setValue(EmptyDict, start.st, 0)
    /\ fScore = setValue(EmptyDict, start.st, heuristics(start))
    /\ heap = {[node |-> start, score |-> heuristics(start)]}
    /\ cameFrom = EmptyDict
    /\ current = NoNode
    /\ total_path = NoResult
    /\ result = NoResult
    /\ plan = <<>>
    /\ error = NoError
    /\ plans = <<>>
    /\ thrown = NoError
    /\ nextId = 1
    /\ tieBreak \in {"fifo", "lifo"}
    /\ elapsed = 0
    /\ errors = <<>>
    /\ outcomes = <<>>
    /\ stateSequence = <<>>
    /\ gWhenClosed = <<>>
    /\ WalkIdle

PlanSpec == InitPlan /\ [][Next]_vars

\* what decides that Expand can fire, and the part of its step that no
\* other action takes: the popped node joins the closed set
ExpandTaken ==
    /\ pc = "search"
    /\ Len(openSet) > 0
    /\ LET root == removeRoot(heap, tieBreak)
       IN  /\ ~goal(formula, root.node.st)
           /\ JsLt(getValue(gScore, root.node.st, Undefined), MaxG)
           /\ closedSet' = Append(closedSet, root.node)

\* the loop of the search and the loop of reconstructPath run on, and the
\* planner goes on after the search has returned
FairSpec ==
    /\ Spec
    /\ WF_vars(FoundGoal)
    /\ WF_closedSet(ExpandTaken)
    /\ WF_vars(ReturnUndefined)
    /\ WF_vars(ReconstructStep)
    /\ WF_vars(ReconstructReturn)
    /\ WF_vars(PlanInterpretation)

\* the timeout planInterpretation passes to aStarSearch, in seconds
Timeout == 10

\* time passes while the search runs
Tick ==
    /\ pc = "search"
    /\ elapsed < MaxElapsed
    /\ elapsed' \in (elapsed + 1)..MaxElapsed
    /\ UNCHANGED <<pc, start, formula, openSet, closedSet, gScore, fScore, heap,
                   cameFrom, current, total_path, result, plan, error, plans, thrown,
                   nextId, tieBreak>>
    /\ UNCHANGED walkVars
    /\ UNCHANGED planVars
    /\ UNCHANGED argVars
    /\ UNCHANGED histVars

NextTimed == Next \/ Tick

TimedSpec == Init /\ [][NextTimed]_vars

\* ------------------------------------------------------------------------
\* The state model on its own: getReachableStates is called on a state,
\* then on one of the states it returned, and so on; the goal test and the
\* heuristic are evaluated on every state given
\* ------------------------------------------------------------------------
InitWalk ==
    /\ pc = "walk"
    /\ heuristicsArg = "heuristicFunction"
    /\ \E st \in WorldStates : start = [id |-> 0, st |-> st]
    /\ formula \in Formulas
    /\ openSet = <<>>
    /\ closedSet = <<>>
    /\ gScore = EmptyDict
    /\ fScore = EmptyDict
    /\ heap = {}
    /\ cameFrom = EmptyDict
    /\ current = NoNode
    /\ total_path = NoResult
    /\ result = NoResult
    /\ plan = <<>>
    /\ error = NoError
    /\ plans = <<>>
    /\ thrown = NoError
    /\ nextId = 1
    /\ tieBreak = "fifo"
    /\ elapsed = 0
    /\ wpc = "idle"
    /\ wIn = Load(start.st).obj
    /\ wMem = Load(start.st).mem
    /\ wBefore = start.st
    /\ wOut = <<>>
    /\ wH = 0
    /\ wGoal = FALSE
    /\ interpretations = <<formula>>
    /\ errors = <<>>
    /\ outcomes = <<>>
    /\ stateSequence = <<>>
    /\ gWhenClosed = <<>>

\* getReachableStates(wIn), heuristicFunction and goal on the same state
CallGetReachableStates ==
    /\ wpc = "idle"
    /\ LET res == getReachableStatesIn(wIn, wMem)
       IN  /\ wOut' = res.states
           /\ wMem' = res.mem
    /\ wH' = heuristicFunction(wBefore, formula)
    /\ wGoal' = goal(formula, wBefore)
    /\ wpc' = "called"
    /\ UNCHANGED <<wIn, wBefore>>
    /\ UNCHANGED searchVars
    /\ UNCHANGED planVars
    /\ UNCHANGED argVars
    /\ UNCHANGED histVars

\* one of the returned states becomes the next state given; what no
\* longer is referred to leaves the memory
TakeSuccessor ==
    /\ wpc = "called"
    /\ \E i \in 1..Len(wOut) :
        LET l == Load(View(wOut[i], wMem))
        IN  /\ wIn' = l.obj
            /\ wMem' = l.mem
            /\ wBefore' = View(wOut[i], wMem)
    /\ wOut' = <<>>
    /\ wpc' = "idle"
    /\ UNCHANGED <<wH, wGoal>>
    /\ UNCHANGED searchVars
    /\ UNCHANGED planVars
    /\ UNCHANGED argVars
    /\ UNCHANGED histVars

NextWalk == CallGetReachableStates \/ TakeSuccessor

WalkSpec == InitWalk /\ [][NextWalk]_vars

\* ------------------------------------------------------------------------
\* pathToPlan on its own: it is called with a list of world states, any
\* state following any
\* ------------------------------------------------------------------------
InitPath ==
    /\ pc = "convert"
    /\ heuristicsArg = "heuristicFunction"
    /\ \E n \in 0..MaxSequence : \E sts \in [1..n -> WorldStates] :
            stateSequence = [k \in 1..n |-> [id |-> k - 1, st |-> sts[k]]]
    /\ gWhenClosed = <<>>
    /\ start = IF Len(stateSequence) > 0 THEN stateSequence[1]
               ELSE [id |-> 0, st |-> CHOOSE st \in WorldStates : TRUE]
    /\ formula = <<>>
    /\ openSet = <<>>
    /\ closedSet = <<>>
    /\ gScore = EmptyDict
    /\ fScore = EmptyDict
    /\ heap = {}
    /\ cameFrom = EmptyDict
    /\ current = NoNode
    /\ total_path = NoResult
    /\ result = NoResult
    /\ plan = <<>>
    /\ error = NoError
    /\ plans = <<>>
    /\ thrown = NoError
    /\ nextId = MaxSequence
    /\ tieBreak = "fifo"
    /\ elapsed = 0
    /\ interpretations = <<formula>>
    /\ errors = <<>>
    /\ outcomes = <<>>
    /\ WalkIdle

\* pathToPlan(stateSequence): it returns a list of actions; nothing in it
\* throws
CallPathToPlan ==
    /\ pc = "convert"
    /\ pc' = "converted"
    /\ plan' = pathToPlan([k \in 1..Len(stateSequence) |-> stateSequence[k].st])
    /\ error' = NoError
    /\ UNCHANGED <<start, formula, openSet, closedSet, gScore, fScore, heap, cameFrom,
                   current, total_path, result, plans, thrown, nextId, tieBreak,
                   elapsed>>
    /\ UNCHANGED walkVars
    /\ UNCHANGED planVars
    /\ UNCHANGED argVars
    /\ UNCHANGED histVars

NextPath == CallPathToPlan

PathSpec == InitPath /\ [][NextPath]_vars

\* ------------------------------------------------------------------------
\* conjunctive and estimatedPathLength on their own: a literal of any
\* relation name and any number of arguments may be handed to them
\* ------------------------------------------------------------------------
\* the relation names conjunctive tests for
KnownRelations ==
    {"holding", "inside", "ontop", "above", "under", "beside", "leftof", "rightof"}

\* the argument lists of at most three tags
ArgLists ==
    UNION {[1..n -> GoalTags \cup {"floor"}] : n \in 0..3}

\* the literals of either polarity
AnyLiterals ==
    {[polarity |-> pol, relation |-> rel, args |-> as] :
        pol \in BOOLEAN, rel \in KnownRelations \cup {"between", ""}, as \in ArgLists}

InitConjunctive ==
    /\ pc = "conjunctive"
    /\ heuristicsArg = "heuristicFunction"
    /\ \E st \in WorldStates : start = [id |-> 0, st |-> st]
    /\ \E l \in AnyLiterals : formula = <<<<l>>>>
    /\ openSet = <<>>
    /\ closedSet = <<>>
    /\ gScore = EmptyDict
    /\ fScore = EmptyDict
    /\ heap = {}
    /\ cameFrom = EmptyDict
    /\ current = NoNode
    /\ total_path = NoResult
    /\ result = NoResult
    /\ plan = <<>>
    /\ error = NoError
    /\ plans = <<>>
    /\ thrown = NoError
    /\ nextId = 1
    /\ tieBreak = "fifo"
    /\ elapsed = 0
    /\ interpretations = <<formula>>
    /\ errors = <<>>
    /\ outcomes = <<>>
    /\ stateSequence = <<>>
    /\ gWhenClosed = <<>>
    /\ WalkIdle

\* conjunctive(formula[0][0], start): a boolean is returned; no statement
\* of it throws on a list of tags
CallConjunctive ==
    /\ pc = "conjunctive"
    /\ pc' = "evaluated"
    /\ wGoal' = conjunctive(formula[1][1], start.st)
    /\ error' = NoError
    /\ UNCHANGED <<start, formula, openSet, closedSet, gScore, fScore, heap, cameFrom,
                   current, total_path, result, plan, plans, thrown, nextId, tieBreak,
                   elapsed>>
    /\ UNCHANGED <<wpc, wIn, wMem, wBefore, wOut, wH>>
    /\ UNCHANGED planVars
    /\ UNCHANGED argVars
    /\ UNCHANGED histVars

\* estimatedPathLength(start, formula[0][0]): a number is returned; the
\* branches that know no better only call console.error
CallEstimatedPathLength ==
    /\ pc = "conjunctive"
    /\ pc' = "estimated"
    /\ wH' = estimatedPathLength(start.st, formula[1][1])
    /\ error' = NoError
    /\ UNCHANGED <<start, formula, openSet, closedSet, gScore, fScore, heap, cameFrom,
                   current, total_path, result, plan, plans, thrown, nextId, tieBreak,
                   elapsed>>
    /\ UNCHANGED <<wpc, wIn, wMem, wBefore, wOut, wGoal>>
    /\ UNCHANGED planVars
    /\ UNCHANGED argVars
    /\ UNCHANGED histVars

NextConjunctive == CallConjunctive \/ CallEstimatedPathLength

ConjunctiveSpec == InitConjunctive /\ [][NextConjunctive]_vars

\* ------------------------------------------------------------------------
\* Reference notions the properties are stated with
\* ------------------------------------------------------------------------
Successors(state) ==
    {getReachableStates(state)[i] : i \in 1..Len(getReachableStates(state))}

\* breadth-first search: the least number of moves from a state of the
\* frontier (d moves from the origin) to a state satisfying the formula,
\* Infinity when there is none
RECURSIVE BreadthFirst(_, _, _, _)
BreadthFirst(frontier, seen, d, f) ==
    IF \E st \in frontier : goal(f, st) THEN d
    ELSE LET next == (UNION {Successors(st) : st \in frontier}) \ seen
         IN  IF next = {} THEN Infinity
             ELSE BreadthFirst(next, seen \cup next, d + 1, f)

TrueCost(state, f) == BreadthFirst({state}, {state}, 0, f)

\* the state an arm action leads to, NoNode.st when the action is not possible
Execute(state, action) ==
    LET fits(t) ==
            CASE action = "l" -> t.arm = state.arm - 1
              [] action = "r" -> t.arm = state.arm + 1
              [] action = "p" -> t.arm = state.arm /\ state.holding = Null /\ t.holding # Null
              [] action = "d" -> t.arm = state.arm /\ state.holding # Null /\ t.holding = Null
              [] OTHER -> FALSE
    IN  IF state # NoNode.st /\ \E t \in Successors(state) : fits(t)
        THEN CHOOSE t \in Successors(state) : fits(t)
        ELSE NoNode.st

RECURSIVE Replay(_, _, _)
Replay(state, actions, i) ==
    IF i > Len(actions) THEN state
    ELSE Replay(Execute(state, actions[i]), actions, i + 1)

\* ------------------------------------------------------------------------
\* Properties
\* ------------------------------------------------------------------------
\* the scenario of the documentation: b on a in column 0, column 1 empty,
\* arm over column 0, goal ontop(b, floor)
ExampleInput ==
    /\ start.st = [stacks |-> <<<<"a", "b">>, <<>>>>, arm |-> 0, holding |-> Null]
    /\ formula = <<<<Lit("ontop", <<"b", "floor">>)>>>>

\* the arm actions of a plan, without the utterances
ArmActions(p) == SelectSeq(p, LAMBDA x : x \in {"l", "r", "p", "d"})

\* C1: whenever aStarSearch returns a result its cost is the least number
\* of arm actions that breadth-first search finds from start to a goal
\* state, and in the documented scenario planning ends with the plan
\* pick, right, drop: the walk back from the goal holds no more than the
\* goal and its three predecessors.
C1_OptimalCost ==
    /\ []((pc = "returned" /\ result # NoResult)
            => result.cost = TrueCost(start.st, formula))
    /\ []((pc = "reconstruct" /\ ExampleInput) => Len(total_path.path) <= 4)
    /\ ((pc = "search" /\ ExampleInput)
            ~> (pc = "planned" /\ plan = <<"p", "r", "d">>))

\* C2: replaying a returned plan from the start state, each action through
\* the transition rules, ends in a state that satisfies the formula, and the
\* plan has as many actions as the cost the search reported.
C2_PathValidity ==
    (pc = "planned" /\ error = NoError) =>
        /\ goal(formula, Replay(start.st, plan, 1))
        /\ Len(plan) = result.cost

C2_Witness ==
    /\ pc = "planned"
    /\ error = NoError
    /\ Len(plan) = 2
    /\ result.cost = 2
    /\ goal(formula, Replay(start.st, plan, 1))

\* C3: the heuristic of a given state never exceeds the least number of
\* actions from that state to a goal state, when there is one.
C3_Admissible ==
    (wpc = "called" /\ TrueCost(wBefore, formula) # Infinity) =>
        wH <= TrueCost(wBefore, formula)

\* the walk back of reconstructPath has come to a node it has been at
WalkRevisits ==
    \E i, j \in 1..Len(total_path.path) :
        i < j /\ total_path.path[i] = total_path.path[j]

\* C4: a search from whose start a goal state is reachable eventually
\* returns a result: it never returns undefined, and it does not loop for
\* ever, so the walk back from the goal never comes to a node twice.
C4_ReturnsResult ==
    /\ []((pc = "returned" /\ TrueCost(start.st, formula) # Infinity)
            => result # NoResult)
    /\ []((pc = "reconstruct" /\ TrueCost(start.st, formula) # Infinity)
            => ~WalkRevisits)
    /\ ((pc = "search" /\ TrueCost(start.st, formula) # Infinity)
            ~> (pc = "returned" /\ result # NoResult))

C6_TimeoutStops ==
    [][(pc = "search" /\ elapsed > Timeout /\ elapsed' = elapsed)
            => (pc' = "returned" /\ result' = NoResult)]_vars

\* C7: the goal test holds of a state exactly when its heuristic is 0.
C7_GoalZero == (wpc = "called") => (wGoal <=> (wH = 0))

\* C8: when the start state satisfies the formula, planInterpretation
\* returns the empty plan and Planner.plan returns one plan without any arm
\* action; nothing is thrown.
C8_AlreadyTrue ==
    (pc = "planned" /\ goal(formula, start.st)) =>
        /\ plan = <<>>
        /\ error = NoError
        /\ thrown = NoError
        /\ Len(plans) = 1
        /\ ArmActions(plans[1]) = <<>>

C8_Witness ==
    /\ pc = "planned"
    /\ goal(formula, start.st)
    /\ formula # <<>>
    /\ plan = <<>>
    /\ plans = <<<<AlreadyTrue>>>>

\* C9: in the state given to getReachableStates and in every state it
\* returns, each object is in exactly one place: one position of one
\* column, or the arm.
C9_EachObjectOnce ==
    /\ \A o \in Objs : Occurrences(wBefore, o) = 1
    /\ \A i \in 1..Len(wOut) : \A o \in Objs :
            Occurrences(View(wOut[i], wMem), o) = 1

\* a pick-up and a drop have each produced a state, some moves after start
C9_Witness ==
    /\ wpc = "called"
    /\ wBefore # start.st
    /\ \E i \in 1..Len(wOut) : View(wOut[i], wMem).stacks # wBefore.stacks

\* C10: after getReachableStates the state it was given denotes the same
\* world state as before, and no returned state refers to a column array of
\* the given state or of another returned state.
C10_InputUntouched ==
    (wpc = "called") =>
        /\ View(wIn, wMem) = wBefore
        /\ \A i \in 1..Len(wOut) : \A k, m \in 1..Len(wIn.stacks) :
                wOut[i].stacks[k] # wIn.stacks[m]
        /\ \A i, j \in 1..Len(wOut) : \A k, m \in 1..Len(wIn.stacks) :
                i # j => wOut[i].stacks[k] # wOut[j].stacks[m]

\* a pick-up or a drop has changed a column of a returned state
C10_Witness ==
    /\ wpc = "called"
    /\ wBefore.holding = Null
    /\ \E i \in 1..Len(wOut) :
        /\ wOut[i].holding # Null
        /\ View(wOut[i], wMem).stacks # View(wIn, wMem).stacks

\* C11: the path of every result aStarSearch returns does not contain start
\* (neither the object nor its state), is empty exactly when start satisfies
\* the goal, ends in a goal state, begins with a successor of start and goes
\* on from each node to one of its successors; the list planInterpretation
\* hands to pathToPlan is that path with start in front, once.
C11_PathShape ==
    (pc \in {"returned", "planned"} /\ result # NoResult) =>
        LET path == result.path
        IN  /\ \A k \in 1..Len(path) :
                    path[k].id # start.id /\ path[k].st # start.st
            /\ (Len(path) = 0) <=> goal(formula, start.st)
            /\ Len(path) > 0 =>
                    /\ goal(formula, path[Len(path)].st)
                    /\ path[1].st \in Successors(start.st)
                    /\ \A k \in 1..(Len(path) - 1) :
                            path[k + 1].st \in Successors(path[k].st)
            /\ pc = "planned" =>
                    /\ Len(stateSequence) = Len(path) + 1
                    /\ stateSequence[1] = start
                    /\ \A k \in 1..Len(path) : stateSequence[k + 1] = path[k]

\* planning has ended with a path of two nodes
C11_Witness ==
    /\ pc = "planned"
    /\ result # NoResult
    /\ Len(result.path) = 2
    /\ Len(stateSequence) = 3

\* the calls of planInterpretation i and j have ended the same way
SameOutcome(i, j) ==
    /\ Len(outcomes[i].plan) = Len(outcomes[j].plan)
    /\ outcomes[i].error = outcomes[j].error

\* C12: two calls of planInterpretation with the same formula on the same
\* start state end with plans of the same length (or both with the same
\* error), and a call begins with tables that hold start and nothing of the
\* call before.
C12_Deterministic ==
    /\ [](\A i, j \in 1..Len(outcomes) :
            interpretations[i] = interpretations[j] => SameOutcome(i, j))
    /\ [][(pc = "returned" /\ pc' = "search") =>
            /\ openSet' = <<start>>
            /\ closedSet' = <<>>
            /\ {e.node : e \in heap'} = {start}
            /\ DOMAIN gScore' = {start.st}
            /\ DOMAIN fScore' = {start.st}
            /\ DOMAIN cameFrom' = {}]_vars

\* two calls with the same formula have each returned a plan of two actions
C12_Witness ==
    /\ pc = "planned"
    /\ Len(outcomes) = 2
    /\ interpretations[1] = interpretations[2]
    /\ outcomes[1].error = NoError
    /\ Len(outcomes[1].plan) = 2
    /\ Len(outcomes[2].plan) = 2

\* C13: when aStarSearch has returned undefined with its open set empty,
\* planInterpretation throws an error, and that error is not the one that
\* reports a timeout.
C13_NoPlanFound ==
    (pc = "planned" /\ result = NoResult /\ Len(openSet) = 0) =>
        /\ error # NoError
        /\ error # TimeoutError

\* the pair (s, t) is none of left, right, pick and drop: the arm has not
\* moved and holding has not gone from empty to an object or back
Unrecognised(s, t) ==
    /\ s.arm = t.arm
    /\ (s.holding = Null) <=> (t.holding = Null)

RECURSIVE Successes(_)
Successes(n) ==
    IF n = 0 THEN <<>>
    ELSE IF outcomes[n].error # NoError THEN Successes(n - 1)
         ELSE Append(Successes(n - 1),
                     IF Len(outcomes[n].plan) = 0 THEN <<AlreadyTrue>>
                     ELSE outcomes[n].plan)

\* the errors of the interpretations among the first n whose planning failed
RECURSIVE Failures(_)
Failures(n) ==
    IF n = 0 THEN <<>>
    ELSE IF outcomes[n].error # NoError THEN Append(Failures(n - 1), outcomes[n].error)
         ELSE Failures(n - 1)

\* C15: when Planner.plan ends, every interpretation has been planned; the
\* plans returned are those of the interpretations that succeeded, in input
\* order; an error is thrown only when every interpretation failed, and it
\* is the error of the first one.
C15_PlanCollects ==
    pc = "planned" =>
        /\ Len(outcomes) = Len(interpretations)
        /\ plans = Successes(Len(outcomes))
        /\ (thrown # NoError) <=> (\A i \in 1..Len(outcomes) : outcomes[i].error # NoError)
        /\ thrown # NoError => thrown = Failures(Len(outcomes))[1]
        /\ thrown = NoError => Len(plans) > 0

C15_Witness ==
    /\ pc = "planned"
    /\ Len(outcomes) = 2
    /\ outcomes[1].error # NoError
    /\ outcomes[2].error = NoError
    /\ Len(plans) = 1
    /\ thrown = NoError

\* C16: goal(formula, state) is true exactly when the formula has a
\* conjunction all of whose literals conjunctive finds satisfied in the
\* state; it is false for a formula without conjunctions.
C16_GoalIsDnf ==
    wpc = "called" =>
        /\ wGoal <=> \E i \in 1..Len(formula) :
                        \A j \in 1..Len(formula[i]) : conjunctive(formula[i][j], wBefore)
        /\ Len(formula) = 0 => ~wGoal

C16_Witness ==
    /\ wpc = "called"
    /\ Len(formula) = 2
    /\ wGoal
    /\ ~conjunctive(formula[1][1], wBefore)
    /\ conjunctive(formula[2][1], wBefore)

\* the literal has a relation name conjunctive does not know, or not the
\* number of arguments of its relation
Malformed(lit) ==
    \/ lit.relation \notin KnownRelations
    \/ lit.relation = "holding" /\ Len(lit.args) # 1
    \/ lit.relation \in KnownRelations \ {"holding"} /\ Len(lit.args) # 2

\* C17: conjunctive returns false, and does not throw, for every literal
\* with an unknown relation name or with a wrong number of arguments, in
\* every state.
C17_MalformedIsFalse ==
    (pc = "evaluated" /\ Malformed(formula[1][1])) => (~wGoal /\ error = NoError)

\* the world state the i-th returned state denotes
Out(i) == View(wOut[i], wMem)

\* the column under the arm of the state given
ColumnUnderArm == wBefore.stacks[wBefore.arm + 1]

\* the i-th returned state has the columns of the state given, but for the
\* column under the arm, which is col
OnlyColumnUnderArmIs(i, col) ==
    /\ Len(Out(i).stacks) = Len(wBefore.stacks)
    /\ \A k \in 1..Len(wBefore.stacks) :
            Out(i).stacks[k] = IF k = wBefore.arm + 1 THEN col ELSE wBefore.stacks[k]

\* C18: getReachableStates returns a state with the arm further left exactly
\* when arm > 0, and one with the arm further right exactly when
\* arm < number of stacks - 1; there is one of each at most, its arm is one
\* column away, and its stacks and holding are those of the state given.
C18_ArmMoves ==
    wpc = "called" =>
        /\ (\E i \in 1..Len(wOut) : Out(i).arm < wBefore.arm) <=> wBefore.arm > 0
        /\ (\E i \in 1..Len(wOut) : Out(i).arm > wBefore.arm)
                <=> wBefore.arm < Len(wBefore.stacks) - 1
        /\ \A i \in 1..Len(wOut) :
                Out(i).arm # wBefore.arm =>
                    /\ Out(i).arm \in {wBefore.arm - 1, wBefore.arm + 1}
                    /\ Out(i).stacks = wBefore.stacks
                    /\ Out(i).holding = wBefore.holding
        /\ \A i, j \in 1..Len(wOut) :
                (Out(i).arm # wBefore.arm /\ Out(i).arm = Out(j).arm) => i = j

\* the arm holds an object and is moved to the left, some moves after start
C18_Witness ==
    /\ wpc = "called"
    /\ wBefore # start.st
    /\ wBefore.arm > 0
    /\ wBefore.holding # Null
    /\ \E i \in 1..Len(wOut) : Out(i).arm = wBefore.arm - 1

\* the i-th returned state is a pick-up
IsPickUp(i) == Out(i).arm = wBefore.arm /\ wBefore.holding = Null

\* C19: getReachableStates returns a pick-up state exactly when holding is
\* empty and the column under the arm is not; that state holds the former
\* top of the column, has the column without its top element, and has the
\* arm and all other columns of the state given.
C19_PickUp ==
    wpc = "called" =>
        /\ (\E i \in 1..Len(wOut) : IsPickUp(i))
                <=> (wBefore.holding = Null /\ Len(ColumnUnderArm) > 0)
        /\ \A i \in 1..Len(wOut) :
                IsPickUp(i) =>
                    /\ Len(ColumnUnderArm) > 0
                    /\ Out(i).holding = ColumnUnderArm[Len(ColumnUnderArm)]
                    /\ OnlyColumnUnderArmIs(i, SubSeq(ColumnUnderArm, 1,
                                                      Len(ColumnUnderArm) - 1))
        /\ \A i, j \in 1..Len(wOut) : (IsPickUp(i) /\ IsPickUp(j)) => i = j

\* the upper of two objects of a column is picked up
C19_Witness ==
    /\ wpc = "called"
    /\ Len(ColumnUnderArm) = 2
    /\ \E i \in 1..Len(wOut) :
            /\ Out(i).holding = ColumnUnderArm[2]
            /\ Len(Out(i).stacks[wBefore.arm + 1]) = 1

\* the i-th returned state is a drop
IsDrop(i) == Out(i).arm = wBefore.arm /\ wBefore.holding # Null

\* what the held object would come to rest on
StackTopOrFloor ==
    IF Len(ColumnUnderArm) = 0 THEN "floor" ELSE ColumnUnderArm[Len(ColumnUnderArm)]

\* C20: getReachableStates returns a drop state exactly when holding is not
\* empty and checkRelation("ontop", [held, top of the column under the arm
\* or "floor"]) holds; that state has the held object on top of the column,
\* holds nothing, and has the arm and all other columns of the state given.
C20_Drop ==
    wpc = "called" =>
        /\ (\E i \in 1..Len(wOut) : IsDrop(i))
                <=> /\ wBefore.holding # Null
                    /\ checkRelation("ontop", <<wBefore.holding, StackTopOrFloor>>, wBefore)
        /\ \A i \in 1..Len(wOut) :
                IsDrop(i) =>
                    /\ Out(i).holding = Null
                    /\ OnlyColumnUnderArmIs(i, Append(ColumnUnderArm, wBefore.holding))
        /\ \A i, j \in 1..Len(wOut) : (IsDrop(i) /\ IsDrop(j)) => i = j

\* the held object is dropped on an object
C20_Witness ==
    /\ wpc = "called"
    /\ wBefore.holding # Null
    /\ Len(ColumnUnderArm) = 1
    /\ \E i \in 1..Len(wOut) :
            /\ Out(i).holding = Null
            /\ Out(i).stacks[wBefore.arm + 1] = <<ColumnUnderArm[1], wBefore.holding>>

\* the returned states that the action leads to from the state given
Yielded(action) ==
    {i \in 1..Len(wOut) :
        CASE action = "l" -> Out(i).arm < wBefore.arm
          [] action = "r" -> Out(i).arm > wBefore.arm
          [] action = "p" -> Out(i).arm = wBefore.arm /\ wBefore.holding = Null
                                /\ Out(i).holding # Null
          [] action = "d" -> Out(i).arm = wBefore.arm /\ wBefore.holding # Null
                                /\ Out(i).holding = Null}

\* C21: in every state each of the four actions yields at most one returned
\* state, every returned state is yielded by an action, a pick-up and a drop
\* are never both returned, and outgoingEdges has exactly one edge for each
\* returned state, in order, from the state given and of cost 1.
C21_OneEdgePerAction ==
    wpc = "called" =>
        /\ \A action \in {"l", "r", "p", "d"} : Cardinality(Yielded(action)) <= 1
        /\ \A i \in 1..Len(wOut) : \E action \in {"l", "r", "p", "d"} : i \in Yielded(action)
        /\ Yielded("p") = {} \/ Yielded("d") = {}
        /\ LET edges == outgoingEdges(wBefore)
           IN  /\ Len(edges) = Len(wOut)
               /\ \A i \in 1..Len(edges) :
                    /\ edges[i].from = wBefore
                    /\ edges[i].to = Out(i)
                    /\ edges[i].cost = 1

\* a move and a drop are both possible, some moves after start
C21_Witness ==
    /\ wpc = "called"
    /\ wBefore # start.st
    /\ Len(wOut) = 2
    /\ Yielded("d") # {}
    /\ Len(outgoingEdges(wBefore)) = 2

\* C22: a state equal in stacks, arm and holding to a state closed before
\* is closed again only with a strictly smaller g: of two nodes of the
\* closed set with the same state, the later one had the smaller g when it
\* was expanded.
C22_NoReexpansion ==
    \A i, j \in 1..Len(closedSet) :
        (i < j /\ closedSet[i].st = closedSet[j].st) =>
            JsLt(gWhenClosed[j], gWhenClosed[i])

\* C23: the open set never holds two nodes with equal states.
C23_OpenSetDistinct ==
    \A i, j \in 1..Len(openSet) :
        openSet[i].st = openSet[j].st => i = j

\* the search goes on with several nodes on the open set after a neighbour
\* was left out of it: more objects were created than were ever added
C23_Witness ==
    /\ pc = "search"
    /\ Len(openSet) >= 2
    /\ nextId > Len(openSet) + Len(closedSet)

\* fScore.getValue
F(n) == getValue(fScore, n.st, Undefined)

\* C24: whenever the loop of the search is about to pop, the node the heap
\* gives has the lowest recorded f of all nodes of the open set: no node of
\* the open set has a smaller fScore.
C24_PopsLowestF ==
    (pc = "search" /\ Len(openSet) > 0) =>
        \A k \in 1..Len(openSet) :
            ~JsLt(F(openSet[k]), F(removeRoot(heap, tieBreak).node))

\* following cameFrom from the state st comes to the start state within
\* fuel steps
RECURSIVE LeadsToStart(_, _)
LeadsToStart(st, fuel) ==
    IF st = start.st THEN TRUE
    ELSE IF fuel = 0 \/ st \notin DOMAIN cameFrom THEN FALSE
    ELSE LeadsToStart(cameFrom[st].st, fuel - 1)

\* C25: during the search every state other than start with a recorded g
\* has a recorded predecessor whose g is smaller by the cost of the edge,
\* and the predecessors lead from it back to start (the table has no
\* cycle); the walk back of reconstructPath therefore ends.
C25_PredecessorsLeadToStart ==
    pc \in {"search", "reconstruct"} =>
        \A st \in DOMAIN gScore \ {start.st} :
            /\ st \in DOMAIN cameFrom
            /\ gScore[st] = JsAdd(getValue(gScore, cameFrom[st].st, Undefined), 1)
            /\ LeadsToStart(st, Cardinality(DOMAIN cameFrom))

\* the sum of the costs of the edges of a path from start: every edge of
\* the state graph costs 1
PathCost(path) == Len(path)

\* C26: the cost of the result aStarSearch returns is the g recorded for
\* the goal node it popped, which is the sum of the edge costs along the
\* returned path, whatever function was passed as heuristics.
C26_CostIsG ==
    (pc = "returned" /\ result # NoResult) =>
        /\ result.cost = PathCost(result.path)
        /\ result.cost = getValue(gScore, IF Len(result.path) = 0 THEN start.st
                                          ELSE result.path[Len(result.path)].st,
                                  Undefined)

\* the sum of the estimates of the literals of a conjunction, from the
\* first literal on
RECURSIVE ConjunctionSum(_, _)
ConjunctionSum(state, conj) ==
    IF Len(conj) = 0 THEN 0
    ELSE JsAdd(estimatedPathLength(state, conj[1]), ConjunctionSum(state, Tail(conj)))

\* the sums of the conjunctions of the formula in the state given
Sums == {ConjunctionSum(wBefore, formula[i]) : i \in 1..Len(formula)}

\* C27: in a state that does not satisfy the formula heuristicFunction
\* returns the least of the sums of estimatedPathLength over the literals
\* of each conjunction: it is one of these sums and none is smaller; it is
\* Infinity when no conjunction has a sum below Infinity.
C27_MinOfSums ==
    (wpc = "called" /\ ~wGoal) =>
        IF \E x \in Sums : JsLt(x, Infinity)
        THEN wH \in Sums /\ \A x \in Sums : ~JsLt(x, wH)
        ELSE wH = Infinity

\* the second of two conjunctions has the smaller sum, and a conjunction of
\* two literals has had its estimates added
C27_Witness ==
    /\ wpc = "called"
    /\ ~wGoal
    /\ Len(formula) = 2
    /\ JsLt(ConjunctionSum(wBefore, formula[2]), ConjunctionSum(wBefore, formula[1]))
    /\ wH = ConjunctionSum(wBefore, formula[2])
    /\ wH > 0

\* the columns of the state given that hold x, 0-based
ColumnsOf(x) ==
    {i - 1 : i \in {k \in 1..Len(wBefore.stacks) :
                        \E m \in 1..Len(wBefore.stacks[k]) : wBefore.stacks[k][m] = x}}

\* the number of objects above x in the column c
ObjectsAbove(x, c) ==
    Cardinality({m \in 1..Len(wBefore.stacks[c + 1]) :
                    \E k \in 1..(m - 1) : wBefore.stacks[c + 1][k] = x})

\* what the estimate of holding(x) is to be in the state given
HoldingExpected(x) ==
    IF wBefore.holding = x THEN 0
    ELSE IF x = "floor" \/ ColumnsOf(x) = {} THEN Infinity
    ELSE LET c == CHOOSE i \in ColumnsOf(x) : TRUE
             away == IF wBefore.arm < c THEN c - wBefore.arm ELSE wBefore.arm - c
         IN  away + 4 * ObjectsAbove(x, c) + 1

\* C28: estimatedPathLength of a literal holding(x) is 0 when the arm holds
\* x, Infinity when x is the floor or in no column, and otherwise the
\* distance of the arm from the column of x, plus 4 for every object above
\* x, plus 1; the heuristic of the formula holding(x) is that estimate.
C28_HoldingEstimate ==
    wpc = "called" =>
        /\ \A x \in Objs \cup {"floor", "d"} :
                estimatedPathLength(wBefore, Lit("holding", <<x>>)) = HoldingExpected(x)
        /\ \A x \in Objs : formula = <<<<Lit("holding", <<x>>)>>>> => wH = HoldingExpected(x)

\* the object to hold lies under another one in a column the arm is not at
C28_Witness ==
    /\ wpc = "called"
    /\ \E x \in Objs :
            /\ formula = <<<<Lit("holding", <<x>>)>>>>
            /\ \E c \in ColumnsOf(x) : c # wBefore.arm /\ ObjectsAbove(x, c) = 1
            /\ wH = 6

\* the column the arm travels from or to for x: the arm's own when x is held
ColumnOrArm(x) ==
    IF wBefore.holding = x THEN wBefore.arm ELSE CHOOSE c \in ColumnsOf(x) : TRUE

\* what an estimate of the kind of leftof(x, y) is in the state given: the
\* cost of holding x, the travel between the columns, 1 to settle and 1 to
\* drop
NeighbourExpected(x, y) ==
    LET travel == IF ColumnOrArm(x) < ColumnOrArm(y) THEN ColumnOrArm(y) - ColumnOrArm(x)
                  ELSE ColumnOrArm(x) - ColumnOrArm(y)
    IN  HoldingExpected(x) + travel + 1 + 1

\* C29: estimatedPathLength of a literal rightof(x, y) is the cost of
\* holding x, plus the travel of the arm between the columns of x and y,
\* plus 1 for settling in the neighbouring column, plus 1 for the drop, as
\* it is for leftof(x, y).
C29_RightofEstimate ==
    wpc = "called" =>
        \A x, y \in Objs :
            x # y => /\ estimatedPathLength(wBefore, Lit("rightof", <<x, y>>))
                            = NeighbourExpected(x, y)
                     /\ estimatedPathLength(wBefore, Lit("rightof", <<x, y>>))
                            = estimatedPathLength(wBefore, Lit("leftof", <<x, y>>))

\* C30: estimatedPathLength of a literal whose relation name it does not
\* know ends with an error or returns Infinity; it does not return 0.
C30_UnknownRelationNotZero ==
    (pc = "estimated" /\ formula[1][1].relation \notin KnownRelations) =>
        (error # NoError \/ wH = Infinity) /\ wH # 0

\* C31: in every state of the walk, estimatedPathLength of every literal
\* over objects of the world is a number that is not negative, or Infinity:
\* it is not NaN and not below 0, also when the arm holds an argument of the
\* literal; the heuristic computed by the call is such a number too.
C31_EstimateIsNumber ==
    wpc = "called" =>
        /\ \A l \in Literals :
                /\ estimatedPathLength(wBefore, l) # NaN
                /\ estimatedPathLength(wBefore, l) >= 0
        /\ wH # NaN
        /\ wH >= 0

\* C32: the heuristic is consistent: for every state getReachableStates
\* returns for the state given, and every formula, the heuristic of the
\* state given is at most 1 plus the heuristic of the returned state.
C32_Consistent ==
    wpc = "called" =>
        \A i \in 1..Len(wOut) :
            ~JsLt(JsAdd(1, heuristicFunction(Out(i), formula)), wH)

\* the places <<column, height>> of x in the state given, both counted
\* from 0; the floor lies below every column, at height -1
PlacesOf(x) ==
    IF x = "floor" THEN {<<c - 1, -1>> : c \in 1..Len(wBefore.stacks)}
    ELSE {p \in (0..(Len(wBefore.stacks) - 1)) \X (0..(NumObjs - 1)) :
            /\ p[2] + 1 <= Len(wBefore.stacks[p[1] + 1])
            /\ wBefore.stacks[p[1] + 1][p[2] + 1] = x}

\* what a literal of a vertical relation is to evaluate to
VerticalExpected(l) ==
    \E p \in PlacesOf(l.args[1]), q \in PlacesOf(l.args[2]) :
        /\ p[1] = q[1]
        /\ CASE l.relation \in {"ontop", "inside"} -> p[2] = q[2] + 1
             [] l.relation = "above" -> p[2] > q[2]
             [] l.relation = "under" -> p[2] < q[2]

VerticalLiterals ==
    {l \in Literals : l.relation \in {"ontop", "inside", "above", "under"}}

\* C33: conjunctive finds ontop(x, y) and inside(x, y) satisfied exactly
\* when x and y are in one column and x is one place above y, above(x, y)
\* when x is higher in the column of y, under(x, y) when it is lower, the
\* floor being the place below the lowest object of the column of x; goal
\* of the formula made of such a literal is that value.
C33_VerticalRelations ==
    wpc = "called" =>
        /\ \A l \in VerticalLiterals : conjunctive(l, wBefore) <=> VerticalExpected(l)
        /\ \A l \in VerticalLiterals : formula = <<<<l>>>> => (wGoal <=> VerticalExpected(l))

\* an object lies directly on another and the goal test has found it so
C33_Witness ==
    /\ wpc = "called"
    /\ wGoal
    /\ \E l \in VerticalLiterals :
            /\ formula = <<<<l>>>>
            /\ l.relation = "ontop"
            /\ l.args[2] # "floor"
            /\ VerticalExpected(l)

\* what a literal of a horizontal relation is to evaluate to when both of
\* its objects are in columns
HorizontalExpected(l) ==
    \E p \in PlacesOf(l.args[1]), q \in PlacesOf(l.args[2]) :
        CASE l.relation = "beside" -> p[1] - q[1] \in {-1, 1}
          [] l.relation = "leftof" -> p[1] - q[1] = -1
          [] l.relation = "rightof" -> p[1] - q[1] = 1

\* the literals of the horizontal relations between two objects
HorizontalLiterals ==
    {l \in Literals : l.relation \in {"beside", "leftof", "rightof"} /\ l.args[2] # "floor"}

\* both objects of the literal are in columns of the state given
BothInColumns(l) == PlacesOf(l.args[1]) # {} /\ PlacesOf(l.args[2]) # {}

\* C34: in a state where x and y are in columns, conjunctive finds
\* beside(x, y) satisfied exactly when their column indices differ by 1,
\* leftof(x, y) when column(x) - column(y) = -1 and rightof(x, y) when it
\* is +1; goal of the formula made of such a literal is that value.
C34_HorizontalRelations ==
    wpc = "called" =>
        \A l \in HorizontalLiterals :
            BothInColumns(l) =>
                /\ conjunctive(l, wBefore) <=> HorizontalExpected(l)
                /\ formula = <<<<l>>>> => (wGoal <=> HorizontalExpected(l))

\* an object is in the column to the right of another's and the goal test
\* has found rightof satisfied
C34_Witness ==
    /\ wpc = "called"
    /\ wGoal
    /\ \E l \in HorizontalLiterals :
            /\ formula = <<<<l>>>>
            /\ l.relation = "rightof"
            /\ BothInColumns(l)
            /\ \E p \in PlacesOf(l.args[1]), q \in PlacesOf(l.args[2]) : p[1] = q[1] + 1

\* the literals of two arguments that have the held object as an argument
LiteralsOfHeld ==
    {l \in Literals : Len(l.args) = 2 /\ wBefore.holding # Null
                        /\ wBefore.holding \in {l.args[1], l.args[2]}}

\* C35: in every state conjunctive finds no literal of two arguments
\* satisfied that has the held object as an argument, the other argument
\* being an object or the floor; goal of the formula made of such a
\* literal is false.
C35_HeldInNoRelation ==
    wpc = "called" =>
        \A l \in LiteralsOfHeld :
            /\ ~conjunctive(l, wBefore)
            /\ formula = <<<<l>>>> => ~wGoal

\* the goal test was made on a literal between the held object and the
\* floor, some moves after start
C35_Witness ==
    /\ wpc = "called"
    /\ wBefore # start.st
    /\ \E l \in LiteralsOfHeld :
            /\ formula = <<<<l>>>>
            /\ l.args[1] = wBefore.holding
            /\ l.args[2] = "floor"
            /\ l.relation = "above"
            /\ ~wGoal

\* the relation of the literal holds of its arguments in the state: this is
\* what conjunctive computes for the literal of polarity true
RelationHolds(lit, state) == conjunctive([lit EXCEPT !.polarity = TRUE], state)

\* C36: a literal is satisfied exactly when the truth of its relation is
\* its polarity: conjunctive returns true for a well-formed literal whose
\* relation holds and whose polarity is true, or whose relation does not
\* hold and whose polarity is false.
C36_PolarityCounts ==
    (pc = "evaluated" /\ ~Malformed(formula[1][1])) =>
        (wGoal <=> (RelationHolds(formula[1][1], start.st) <=> formula[1][1].polarity))

\* the states of the list handed to pathToPlan
PathStates == [k \in 1..Len(stateSequence) |-> stateSequence[k].st]

\* every state of the list after the first is one of the states
\* getReachableStates yields for the state before it
IsTransitionPath(path) ==
    /\ Len(path) >= 1
    /\ \A i \in 2..Len(path) : path[i] \in Successors(path[i - 1])

\* the action the documentation names for a pair of states
ActionOf(s, t) ==
    CASE t.arm < s.arm -> "l"
      [] t.arm > s.arm -> "r"
      [] t.arm = s.arm /\ s.holding = Null /\ t.holding # Null -> "p"
      [] t.arm = s.arm /\ s.holding # Null /\ t.holding = Null -> "d"
      [] OTHER -> "none"

\* C37: for a list of n+1 states, each after the first one transition of
\* getReachableStates away from the state before it, pathToPlan returns n
\* actions, the i-th being l when the arm index went down, r when it went
\* up, p when holding went from empty to an object and d when it went from
\* an object to empty.
C37_OneActionPerTransition ==
    (pc = "converted" /\ IsTransitionPath(PathStates)) =>
        /\ Len(plan) = Len(PathStates) - 1
        /\ \A i \in 1..Len(plan) : plan[i] = ActionOf(PathStates[i], PathStates[i + 1])

\* a list of three states was converted, a pick-up and then a move to the
\* left
C37_Witness ==
    /\ pc = "converted"
    /\ IsTransitionPath(PathStates)
    /\ Len(PathStates) = 3
    /\ plan = <<"p", "l">>

\* every object of every column may rest on what is directly below it
StacksAreLegal(state) ==
    \A i \in 1..Len(state.stacks) : ColumnIsLegal(state.stacks[i], state)

\* C38: when in the start state every object of a column satisfies
\* checkRelation("ontop") with the object directly below it, or with the
\* floor, the same is true of every state reached by getReachableStates
\* transitions: of the state given to a call and of each state it returns.
C38_StacksStayLegal ==
    StacksAreLegal(start.st) =>
        /\ StacksAreLegal(wBefore)
        /\ \A i \in 1..Len(wOut) : StacksAreLegal(Out(i))

\* some moves after start the arm holds the large brick over the small one:
\* the call returns no drop, and its states are legal
C38_Witness ==
    /\ wpc = "called"
    /\ wBefore # start.st
    /\ StacksAreLegal(start.st)
    /\ wBefore.holding = "a"
    /\ wBefore.stacks[wBefore.arm + 1] = <<"b">>
    /\ Len(wOut) > 0
    /\ \A i \in 1..Len(wOut) : Out(i).holding = "a" /\ StacksAreLegal(Out(i))

\* state.stacks.map(v => v.length) of the state given
StackLengths == [i \in 1..Len(wBefore.stacks) |-> Len(wBefore.stacks[i])]

Distance(i, j) == IF i < j THEN j - i ELSE i - j

\* idx is an index of vs, no element of vs is below the one at idx, and no
\* element as low is at an index closer to startPos
IsNearestMinimum(vs, startPos, idx) ==
    /\ idx \in 0..(Len(vs) - 1)
    /\ \A j \in 0..(Len(vs) - 1) :
            /\ vs[j + 1] >= vs[idx + 1]
            /\ vs[j + 1] = vs[idx + 1] => Distance(j, startPos) >= Distance(idx, startPos)

\* the values of startPos tried: every index, and one beyond either end
StartPositions == (-1)..Len(StackLengths)

\* the column of x for the ontop estimate: the arm's when x is held
TargetColumn(x) == IF wBefore.holding = x THEN wBefore.arm ELSE stackIndex(x, wBefore)

\* the estimate of ontop(x, floor) when the column c is the one to be
\* cleared for x
OntopFloorExpected(x, c) ==
    LET n == Len(wBefore.stacks[c + 1])
        clearing == IF n > 0 THEN Distance(c, wBefore.arm) + 4 * n ELSE 0
        fetching == IF wBefore.holding = x THEN 0 ELSE HoldingExpected(x)
    IN  clearing + fetching + Distance(c, TargetColumn(x)) + 1

\* C39: argmin(vs, startPos) returns an index of a least element of the
\* non-empty list vs, and of the least elements one than which none is
\* closer to startPos, startPos being 0 when it is undefined; the estimate
\* of ontop(x, floor) is the one computed with such a column for the column
\* of x: a shortest column, none as short being nearer.
C39_ArgminNearest ==
    wpc = "called" =>
        /\ \A s \in StartPositions :
                IsNearestMinimum(StackLengths, s, argmin(StackLengths, s))
        /\ IsNearestMinimum(StackLengths, 0, argmin(StackLengths, Undefined))
        /\ \A x \in Objs :
                \E c \in 0..(Len(StackLengths) - 1) :
                    /\ IsNearestMinimum(StackLengths, TargetColumn(x), c)
                    /\ estimatedPathLength(wBefore, Lit("ontop", <<x, "floor">>))
                            = OntopFloorExpected(x, c)
                    /\ formula = <<<<Lit("ontop", <<x, "floor">>)>>>>
                            => wH = IF wGoal THEN 0 ELSE OntopFloorExpected(x, c)

\* some moves after start the arm holds b over the column of a, the
\* other column is empty: argmin gives the empty column, one away from the
\* arm, and the heuristic of ontop(b, floor) is one move and the drop
C39_Witness ==
    /\ wpc = "called"
    /\ wBefore # start.st
    /\ formula = <<<<Lit("ontop", <<"b", "floor">>)>>>>
    /\ wBefore.holding = "b"
    /\ wBefore.arm = 1
    /\ StackLengths = <<0, 1>>
    /\ argmin(StackLengths, TargetColumn("b")) = 0
    /\ ~wGoal
    /\ wH = 2
    /\ wH = OntopFloorExpected("b", 0)

====
